---- MODULE Spec2Model ----
(***************************************************************************)
(* Model of crawl.py, the greenlets-based Bitcoin network crawler: the     *)
(* Redis store shared by the workers (task), the pass controller (cron,    *)
(* restart, dump) and the master bootstrap (main).  One action is one      *)
(* Redis round trip or one network exchange of a greenlet together with    *)
(* the local code that follows it up to the next one: gevent switches      *)
(* greenlets only there.  A redis-py pipeline() is a MULTI/EXEC            *)
(* transaction, so execute() is one step.                                  *)
(***************************************************************************)
EXTENDS Integers, Sequences, FiniteSets, TLC

\* ------------------------------------------------------------------ bounds
\* Pass boundaries (calls of restart) the model follows the crawler through:
\* once the pipeline of restart number MaxPass is executed, the greenlets
\* finish the iteration of task's loop they are in and begin no other.
MaxPass == 1
\* Value at which the crawl:cidr:* counters stop counting in the model.
MaxCidr == 3

\* --------------------------------------------------------- configuration
\* CONF['workers']: greenlets of the master, one of them reserved for cron.
workers == 3
\* CONF['max_nodes']
max_nodes == 2
\* CONF['port']
port == 8333
\* CONF['peers_per_node']
peers_per_node == 8
\* CONF['max_age'] (in the model's time unit)
max_age == 2
\* CONF['ipv6_prefix']
ipv6_prefix == 32
\* CONF['nodes_per_ipv6_prefix']
nodes_per_ipv6_prefix == 1
\* protocol.TO_SERVICES, the services value given to seed nodes
TO_SERVICES == 1

None == "None"

Workers == 1 .. (workers - 1)

\* The task greenlet of a slave process (crawl.py <conf> slave, workers = 1)
Slaves == {0}

\* Every greenlet that runs task
Tasks == Workers \cup Slaves

\* ------------------------------------------------------------- addresses
A1 == "1.2.3.4"
A2 == "5.6.7.8"
A3 == "9.10.11.12"
PrivAddr == "10.0.0.1"
V1 == "2a01:4f8::1"
V2 == "2a01:4f8::2"
V3 == "2a01:4f8::3"
OnionAddr == "abcdefghijklmnop.onion"
BadAddr == "999.1.1.1"

V4Addrs == {A1, A2, A3, PrivAddr}
V6Addrs == {V1, V2, V3}

\* ':' in address
HasColon(address) == address \in V6Addrs

\* address.endswith('.onion')
EndsWithOnion(address) == address = OnionAddr

\* socket.inet_pton(family, address) as the tuple of the address's groups
\* (bytes for IPv4, 16-bit groups for IPv6); << >> stands for socket.error.
InetPton(family, address) ==
    CASE family = "AF_INET" /\ address = A1 -> <<1, 2, 3, 4>>
      [] family = "AF_INET" /\ address = A2 -> <<5, 6, 7, 8>>
      [] family = "AF_INET" /\ address = A3 -> <<9, 10, 11, 12>>
      [] family = "AF_INET" /\ address = PrivAddr -> <<10, 0, 0, 1>>
      [] family = "AF_INET6" /\ address = V1 -> <<10753, 1272, 0, 0, 0, 0, 0, 1>>
      [] family = "AF_INET6" /\ address = V2 -> <<10753, 1272, 0, 0, 0, 0, 0, 2>>
      [] family = "AF_INET6" /\ address = V3 -> <<10753, 1272, 0, 0, 0, 0, 0, 3>>
      [] OTHER -> << >>

\* ipaddress.ip_address(address) raises ValueError: address is no IP address
IpAddressRaises(address) == address \notin V4Addrs \cup V6Addrs

\* ipaddress.ip_address(address).is_private
IsPrivate(address) == address = PrivAddr

RECURSIVE BitAnd(_, _)
\* x & y on naturals
BitAnd(x, y) ==
    IF x = 0 \/ y = 0 THEN 0
    ELSE (x % 2) * (y % 2) + 2 * BitAnd(x \div 2, y \div 2)

\* addr & net[1] == net[0], group by group
NetMatch(addr, net) ==
    /\ Len(addr) = Len(net[1])
    /\ \A i \in 1 .. Len(addr) : BitAnd(addr[i], net[2][i]) = net[1][i]

\* 5.6.0.0/16 as (network address, netmask)
Net56 == << <<5, 6, 0, 0>>, <<255, 255, 0, 0>> >>

\* ip_network(line) of list_excluded_networks, after the comment strip;
\* << >> stands for the ValueError of an unparseable line.
IpNetwork(line) ==
    CASE line = "5.6.0.0/16" -> Net56
      [] line = "5.6.0.0/16 # bogon" -> Net56
      [] OTHER -> << >>

RECURSIVE list_excluded_networks(_, _)
\* list_excluded_networks(txt, networks) with txt as its sequence of lines
list_excluded_networks(txt, networks) ==
    IF txt = <<>> THEN networks
    ELSE LET network == IpNetwork(Head(txt))
         IN  list_excluded_networks(
                 Tail(txt),
                 IF network = << >> THEN networks ELSE networks \cup {network})

\* A rule list of CONF or of Redis: None, or the set of (network, netmask)
NoneList == [is_none |-> TRUE, networks |-> {}]
List(networks) == [is_none |-> FALSE, networks |-> networks]

\* is_excluded(address) raises (the ValueError of ip_address is not caught)
is_excluded_raises(address) ==
    ~EndsWithOnion(address) /\ IpAddressRaises(address)

\* is_excluded(address), when it returns, under the rule lists of CONF
is_excluded(address, exclude_ipv4_networks, exclude_ipv6_networks) ==
    IF EndsWithOnion(address) THEN FALSE
    ELSE IF IsPrivate(address) THEN TRUE
    ELSE IF exclude_ipv6_networks.is_none \/ exclude_ipv4_networks.is_none
    THEN TRUE
    ELSE LET address_family == IF HasColon(address) THEN "AF_INET6" ELSE "AF_INET"
             exclude_ip_networks ==
                 IF HasColon(address) THEN exclude_ipv6_networks.networks
                 ELSE exclude_ipv4_networks.networks
             addr == InetPton(address_family, address)
         IN  IF addr = << >> THEN TRUE
             ELSE \E net \in exclude_ip_networks : NetMatch(addr, net)

\* utils.ip_to_network(address, prefix): the network of the address
ip_to_network(address, prefix) ==
    SubSeq(InetPton("AF_INET6", address), 1, prefix \div 16)

\* f'node:{address}-{port}-{services}'
NodeKey(address, p, services) == <<"node:", address, p, services>>

\* key[5:].split('-', 2)
KeyTuple(key) == <<key[2], key[3], key[4]>>

\* ------------------------------------------------------------ the network
\* What the peers of the crawled network answer (protocol.Connection).

\* 'services' of the version message the peer at address sends
PeerServices(address) == IF address \in {A1, V1, V2, V3} THEN 1 ELSE 9

\* 'height' of the version message
PeerHeight(address) == 800000

\* time.time() when get_peers runs; the entries' timestamps are relative to it
now == 0

Entry(a4, a6, p, s, ts) ==
    [ipv4 |-> a4, ipv6 |-> a6, onion |-> "", port |-> p, services |-> s,
     timestamp |-> ts]

\* The addr messages the peer at address sends after a getaddr.
AddrMsgs(address) ==
    CASE address = A1 ->
           << [count |-> 3,
               addr_list |-> << Entry(A2, "", 0, 9, now - 1),
                                Entry(A3, "", port, 5, now - max_age - 1),
                                Entry(A2, "", port, 5, now + 1) >>] >>
      [] address = A2 ->
           << [count |-> 2,
               addr_list |-> << Entry(A1, "", port, 1, now),
                                Entry(PrivAddr, "", port, 9, now) >>] >>
      [] OTHER -> << >>

\* The addr messages of a network whose peers advertise each other with
\* fresh timestamps and nothing else.
ColdAddrMsgs(address) ==
    IF address \in {A1, A2}
    THEN << [count |-> 2,
             addr_list |-> << Entry(A1, "", port, 1, now),
                              Entry(A2, "", port, 9, now) >>] >>
    ELSE << >>

\* getaddr, one turn of its loop with msgs what conn.get_messages drained:
\*     if msgs and any([msg['count'] > 1 for msg in msgs]): addr_msgs = msgs
\* << >> when the loop goes on with addr_msgs still []
PollKeeps(msgs) ==
    IF msgs # << >> /\ \E i \in 1 .. Len(msgs) : msgs[i].count > 1
    THEN msgs ELSE << >>

\* What getaddr(conn) can return: the messages, or nothing (an error, or no
\* reply with count > 1 within socket_timeout polls).
getaddr(address) == { << >>, PollKeeps(AddrMsgs(address)) }

\* socket.getaddrinfo of the seeders, per family: the seeders of the IPv6
\* configuration have AAAA records only
GetAddrInfo(family, ipv6) ==
    IF family = "AF_INET"
    THEN (IF ipv6 THEN {} ELSE {A1, A2})
    ELSE {V1, V2, V3}

\* http_get_txt(url) of the bogon list, as lines: empty on a failed fetch
HttpGetTxt == { << >>, << "# bogons", "5.6.0.0/16 # bogon" >> }

\* The 'check' sorted set (written by another program), scores in range
check == { <<A2, port, 9>>, <<PrivAddr, port, 1>> }

\* ------------------------------------------------------------------ state
VARIABLES
    pending,            \* Redis set 'pending'
    up,                 \* Redis set 'up' (the reachable nodes), of node keys
    mempool_pending,    \* Redis list 'mempool_pending', head first
    node,               \* the node:* keys that exist
    height,             \* height:* keys that exist: node tuple -> value
    version,            \* version:* keys that exist: (address, port) -> value
    peer,               \* peer:* keys that exist: (address, port) -> peers
    cidr,               \* crawl:cidr:* counters: network -> value, 0 if absent
    state,              \* crawl:master:state
    published,          \* exclude-ipv4-networks / exclude-ipv6-networks
    nodes_list,         \* Redis list 'nodes', head first
    snapshots,          \* the JSON files written under crawl_dir, in order
    CONF,               \* the master process's CONF (the parts that vary)
    cron_pc,            \* where main / cron / restart stands
    cron_loc,           \* restart's locals
    pc,                 \* where each task greenlet stands
    loc,                \* each task greenlet's locals
    pass,               \* restarts begun so far
    hist,               \* what happened in the current pass (for the properties)
    SLAVE_CONF,         \* the slave process's CONF (the rule lists in use)
    call                \* a call of a function on its own: arguments, result

vars == <<pending, up, mempool_pending, node, height, version, peer, cidr,
          state, published, nodes_list, snapshots, CONF, cron_pc, cron_loc,
          pc, loc, pass, hist, SLAVE_CONF, call>>

store == <<pending, up, mempool_pending, node, height, version, peer, cidr,
           state, published, nodes_list>>

Addresses == V4Addrs \cup V6Addrs
Tuples == Addresses \X {port} \X {1, 9}
AddrPorts == Addresses \X {port}
Networks == { ip_to_network(a, ipv6_prefix) : a \in V6Addrs }

\* conn is the session's Connection: "open" from a successful conn.open()
\* until conn.close(), "none" otherwise
\* node and key not yet assigned are << >>, as is the version_msg = {} of
\* connect
NoLoc == [mempool_ask_mode |-> FALSE, node |-> << >>, key |-> << >>,
          version_msg |-> << >>, peers |-> {}, conn |-> "none"]
NoCronLoc == [nodes |-> {}, node_keys |-> {}, cidr_keys |-> {}, checked |-> {}]
NoHist == [connected |-> {}, handshaked |-> {}, admitted |-> {}]
\* no function is being called on its own
NoCall == [fn |-> None]

\* no key of a kind exists
NoKeys == [k \in {} |-> 0]

\* redis_conn.set(key, value) / redis_conn.delete(key) on the keys of a kind
SetKey(keys, key, value) ==
    [k \in DOMAIN keys \cup {key} |-> IF k = key THEN value ELSE keys[k]]
DelKey(keys, key) == [k \in DOMAIN keys \ {key} |-> keys[k]]

\* redis_conn.lpush(name, value): the list after it
lpush(list, value) == <<value>> \o list

EmptyStore ==
    /\ pending = {}
    /\ up = {}
    /\ mempool_pending = << >>
    /\ node = {}
    /\ height = NoKeys
    /\ version = NoKeys
    /\ peer = NoKeys
    /\ cidr = [n \in Networks |-> 0]

\* What an earlier run of the crawler may have left in the store.
ResidualStore ==
    /\ pending = {<<A3, port, 9>>}
    /\ up = {NodeKey(A3, port, 9)}
    /\ mempool_pending = << <<A3, port, 9>> >>
    /\ node = {NodeKey(A3, port, 9)}
    /\ height = SetKey(NoKeys, <<A3, port, 9>>, 1)
    /\ version = SetKey(NoKeys, <<A3, port>>, 9)
    /\ peer = SetKey(NoKeys, <<A1, port>>, {<<BadAddr, port, 1, now>>})
    /\ cidr = [n \in Networks |-> 2]

\* The program when main() has run init_conf and is about to bootstrap.
InitProgram ==
    /\ EmptyStore \/ ResidualStore
    /\ state = None
    /\ published = [v4 |-> NoneList, v6 |-> NoneList]
    /\ nodes_list = << >>
    /\ snapshots = << >>
    /\ \E ipv6 \in BOOLEAN :
          CONF = [ipv6 |-> ipv6, onion |-> FALSE, include_checked |-> ~ipv6,
                  exclude_ipv4_bogons_from_urls |-> ~ipv6,
                  exclude_ipv4_networks |-> {},
                  exclude_ipv6_networks |-> {},
                  current_exclude_ipv4_networks |-> NoneList,
                  current_exclude_ipv6_networks |-> NoneList]
    /\ cron_pc = "main"
    /\ cron_loc = NoCronLoc
    /\ pc = [w \in Tasks |-> "unspawned"]
    /\ loc = [w \in Tasks |-> NoLoc]
    /\ pass = 0
    /\ hist = NoHist
    /\ SLAVE_CONF = [current_exclude_ipv4_networks |-> NoneList,
                     current_exclude_ipv6_networks |-> NoneList]

\* The state when main() has run init_conf and is about to bootstrap.
Init == InitProgram /\ call = NoCall

\* update_excluded_networks: what the loop over
\* CONF['exclude_ipv4_bogons_from_urls'] fetches (no URL, nothing to add)
FetchedTxt == IF CONF.exclude_ipv4_bogons_from_urls THEN HttpGetTxt ELSE { << >> }

\* is_excluded(address) as the master process evaluates it
IsExcluded(address) ==
    is_excluded(address, CONF.current_exclude_ipv4_networks,
                CONF.current_exclude_ipv6_networks)

\* --------------------------------------------------- main (master bootstrap)

\* update_excluded_networks with txt the text fetched from the bogon URL:
\* the rule lists it stores in Redis, and CONF after set_excluded_networks.
\* list_excluded_networks adds to the set it is given, which is the set held
\* in CONF['exclude_ipv4_networks'].
UpdatedV4(txt) == list_excluded_networks(txt, CONF.exclude_ipv4_networks)

update_excluded_networks(txt) ==
    /\ published' = [v4 |-> List(UpdatedV4(txt)),
                     v6 |-> List(CONF.exclude_ipv6_networks)]
    /\ CONF' = [CONF EXCEPT !.exclude_ipv4_networks = UpdatedV4(txt),
                            !.current_exclude_ipv4_networks =
                                List(UpdatedV4(txt)),
                            !.current_exclude_ipv6_networks =
                                List(CONF.exclude_ipv6_networks)]

\* redis_conn.set('crawl:master:state', 'starting') of main
MainStart ==
    /\ cron_pc = "main"
    /\ state' = "starting"
    /\ cron_pc' = "boot_clear"
    /\ UNCHANGED <<pending, up, mempool_pending, node, height, version, peer,
                   cidr, published, nodes_list, snapshots, CONF, cron_loc, pc,
                   loc, pass, hist>>
    /\ UNCHANGED <<SLAVE_CONF, call>>

\* main's pipeline: 'Removing all keys'
MainClear ==
    /\ cron_pc = "boot_clear"
    /\ up' = {}
    /\ mempool_pending' = << >>
    /\ node' = {}
    /\ height' = NoKeys
    /\ cidr' = [n \in Networks |-> 0]
    /\ version' = NoKeys
    /\ peer' = NoKeys
    /\ pending' = {}
    /\ cron_pc' = "boot_rules"
    /\ UNCHANGED <<state, published, nodes_list, snapshots, CONF, cron_loc, pc,
                   loc, pass, hist>>
    /\ UNCHANGED <<SLAVE_CONF, call>>

\* update_excluded_networks(redis_conn) of main
MainRules ==
    /\ cron_pc = "boot_rules"
    /\ \E txt \in FetchedTxt : update_excluded_networks(txt)
    /\ cron_pc' = "boot_seed"
    /\ UNCHANGED <<pending, up, mempool_pending, node, height, version, peer,
                   cidr, state, nodes_list, snapshots, cron_loc, pc, loc, pass,
                   hist>>
    /\ UNCHANGED <<SLAVE_CONF, call>>

\* The nodes set_pending adds to 'pending'
SeedNodes ==
    LET nodes == GetAddrInfo("AF_INET", CONF.ipv6) \cup
                 (IF CONF.ipv6 THEN GetAddrInfo("AF_INET6", CONF.ipv6) ELSE {})
    IN  { <<n, port, TO_SERVICES>> : n \in { m \in nodes : ~IsExcluded(m) } }
        \cup (IF CONF.onion THEN {<<OnionAddr, port, TO_SERVICES>>} ELSE {})

\* set_pending(redis_conn)
set_pending ==
    /\ cron_pc = "boot_seed"
    /\ pending' = pending \cup SeedNodes
    /\ cron_pc' = "boot_running"
    /\ UNCHANGED <<up, mempool_pending, node, height, version, peer, cidr,
                   state, published, nodes_list, snapshots, CONF, cron_loc, pc,
                   loc, pass, hist>>
    /\ UNCHANGED <<SLAVE_CONF, call>>

\* redis_conn.set('crawl:master:state', 'running') of main, and the spawn of
\* cron and of the task greenlets
MainRunning ==
    /\ cron_pc = "boot_running"
    /\ state' = "running"
    /\ cron_pc' = "scard"
    /\ pc' = [w \in Tasks |-> IF w \in Workers THEN "mode" ELSE pc[w]]
    /\ UNCHANGED <<pending, up, mempool_pending, node, height, version, peer,
                   cidr, published, nodes_list, snapshots, CONF, cron_loc, loc,
                   pass, hist>>
    /\ UNCHANGED <<SLAVE_CONF, call>>

\* ------------------------------------------------------ cron, restart, dump

\* cron with the test pending_nodes <= 1
Drained_one_left(pending_nodes) == pending_nodes <= 1

\* cron: if pending_nodes == 0
Drained(pending_nodes) == pending_nodes = 0

\* cron: pending_nodes = redis_conn.scard('pending'); sleeps cron_delay and
\* looks again when it is not 0
CronScard ==
    /\ cron_pc = "scard"
    /\ pending # {} \/ pass < MaxPass
    /\ cron_pc' = IF Drained(Cardinality(pending)) THEN "set_starting"
                  ELSE "scard"
    /\ UNCHANGED <<pending, up, mempool_pending, node, height, version, peer,
                   cidr, state, published, nodes_list, snapshots, CONF,
                   cron_loc, pc, loc, pass, hist>>
    /\ UNCHANGED <<SLAVE_CONF, call>>

\* cron: redis_conn.set('crawl:master:state', 'starting')
CronStarting ==
    /\ cron_pc = "set_starting"
    /\ state' = "starting"
    /\ pass' = pass + 1
    /\ cron_pc' = "smembers"
    /\ UNCHANGED <<pending, up, mempool_pending, node, height, version, peer,
                   cidr, published, nodes_list, snapshots, CONF, cron_loc, pc,
                   loc, hist>>
    /\ UNCHANGED <<SLAVE_CONF, call>>

\* restart: nodes = redis_conn.smembers('up')
RestartSmembers ==
    /\ cron_pc = "smembers"
    /\ cron_loc' = [cron_loc EXCEPT !.nodes = up]
    /\ cron_pc' = "keys_node"
    /\ UNCHANGED <<pending, up, mempool_pending, node, height, version, peer,
                   cidr, state, published, nodes_list, snapshots, CONF, pc, loc,
                   pass, hist>>
    /\ UNCHANGED <<SLAVE_CONF, call>>

\* restart: get_keys(redis_conn, 'node:*')
RestartKeysNode ==
    /\ cron_pc = "keys_node"
    /\ cron_loc' = [cron_loc EXCEPT !.node_keys = node]
    /\ cron_pc' = "keys_cidr"
    /\ UNCHANGED <<pending, up, mempool_pending, node, height, version, peer,
                   cidr, state, published, nodes_list, snapshots, CONF, pc, loc,
                   pass, hist>>
    /\ UNCHANGED <<SLAVE_CONF, call>>

\* restart: get_keys(redis_conn, 'crawl:cidr:*'), and the checked nodes it
\* re-adds when CONF['include_checked'] (the 'check' set is not written by
\* the crawler, so that read is not a step of its own)
RestartKeysCidr ==
    /\ cron_pc = "keys_cidr"
    /\ cron_loc' = [cron_loc EXCEPT
                       !.cidr_keys = {n \in Networks : cidr[n] > 0},
                       !.checked = IF CONF.include_checked
                                   THEN {t \in check : ~IsExcluded(t[1])}
                                   ELSE {}]
    /\ cron_pc' = "execute"
    /\ UNCHANGED <<pending, up, mempool_pending, node, height, version, peer,
                   cidr, state, published, nodes_list, snapshots, CONF, pc, loc,
                   pass, hist>>
    /\ UNCHANGED <<SLAVE_CONF, call>>

\* restart: redis_pipe.execute()
RestartExecute ==
    /\ cron_pc = "execute"
    /\ up' = {}
    /\ pending' = pending \cup {KeyTuple(n) : n \in cron_loc.nodes}
                          \cup cron_loc.checked
    /\ node' = node \ cron_loc.node_keys
    /\ cidr' = [n \in Networks |-> IF n \in cron_loc.cidr_keys THEN 0 ELSE cidr[n]]
    /\ hist' = NoHist
    /\ cron_loc' = [NoCronLoc EXCEPT !.nodes = cron_loc.nodes]
    /\ cron_pc' = "update"
    /\ UNCHANGED <<mempool_pending, height, version, peer, state, published,
                   nodes_list, snapshots, CONF, pc, loc, pass>>
    /\ UNCHANGED <<SLAVE_CONF, call>>

\* restart: update_excluded_networks(redis_conn)
RestartUpdate ==
    /\ cron_pc = "update"
    /\ \E txt \in FetchedTxt : update_excluded_networks(txt)
    /\ cron_pc' = "dump"
    /\ UNCHANGED <<pending, up, mempool_pending, node, height, version, peer,
                   cidr, state, nodes_list, snapshots, cron_loc, pc, loc, pass,
                   hist>>
    /\ UNCHANGED <<SLAVE_CONF, call>>

RECURSIVE JsonData(_, _)
\* dump: json_data, one [address, port, services, height] per node of nodes,
\* with heights the height:* keys read
JsonData(nodes, heights) ==
    IF nodes = {} THEN << >>
    ELSE LET n == CHOOSE m \in nodes : TRUE
             t == KeyTuple(n)
         IN  << <<t[1], t[2], t[3],
                  IF t \in DOMAIN heights THEN heights[t] ELSE 0>> >>
             \o JsonData(nodes \ {n}, heights)

\* dump without its return for an empty json_data
dump_always(nodes, heights) == Append(snapshots, JsonData(nodes, heights))

\* dump(timestamp, nodes, redis_conn): the files after it
dump(nodes, heights) ==
    IF Len(JsonData(nodes, heights)) = 0 THEN snapshots
    ELSE Append(snapshots, JsonData(nodes, heights))

\* restart: redis_conn.lpush('nodes', ...) and dump(timestamp, nodes, redis_conn).
\* The TTL (max_age) of height:* keys may have run out by now.
RestartDump ==
    /\ cron_pc = "dump"
    /\ nodes_list' = lpush(nodes_list, Cardinality(cron_loc.nodes))
    /\ \E gone \in SUBSET (DOMAIN height \cap
                              {KeyTuple(n) : n \in cron_loc.nodes}) :
          /\ height' = [t \in DOMAIN height \ gone |-> height[t]]
          /\ snapshots' = dump(cron_loc.nodes, height')
    /\ cron_loc' = NoCronLoc
    /\ cron_pc' = "set_running"
    /\ UNCHANGED <<pending, up, mempool_pending, node, version, peer,
                   cidr, state, published, CONF, pc, loc, pass, hist>>
    /\ UNCHANGED <<SLAVE_CONF, call>>

\* cron: after snapshot_delay, redis_conn.set('crawl:master:state', 'running')
CronRunning ==
    /\ cron_pc = "set_running"
    /\ state' = "running"
    /\ cron_pc' = "scard"
    /\ UNCHANGED <<pending, up, mempool_pending, node, height, version, peer,
                   cidr, published, nodes_list, snapshots, CONF, cron_loc, pc,
                   loc, pass, hist>>
    /\ UNCHANGED <<SLAVE_CONF, call>>

\* ------------------------------------------------------------ task, connect

RECURSIVE AddrList(_)
\* the entries of all the messages of addr_msgs (get_peers' two loops)
AddrList(addr_msgs) ==
    IF addr_msgs = << >> THEN {}
    ELSE { Head(addr_msgs).addr_list[i] :
             i \in 1 .. Len(Head(addr_msgs).addr_list) }
         \cup AddrList(Tail(addr_msgs))

\* peer['ipv4'] or peer['ipv6'] or peer['onion']
PeerAddress(e) ==
    IF e.ipv4 # "" THEN e.ipv4 ELSE IF e.ipv6 # "" THEN e.ipv6 ELSE e.onion

\* get_peers in a process whose CONF is conf: the set 'peers' before the
\* hard limit and the truncation
IncludedPeersBy(addr_msgs, conf) ==
    { <<PeerAddress(e), IF e.port > 0 THEN e.port ELSE port, e.services,
        e.timestamp>> :
        e \in { f \in AddrList(addr_msgs) :
                  /\ ~(now - f.timestamp < 0 \/ now - f.timestamp > max_age)
                  /\ PeerAddress(f) # ""
                  /\ ~is_excluded(PeerAddress(f),
                                  conf.current_exclude_ipv4_networks,
                                  conf.current_exclude_ipv6_networks) } }

\* the same in the master process
IncludedPeers(addr_msgs) == IncludedPeersBy(addr_msgs, CONF)

Min(a, b) == IF a < b THEN a ELSE b

\* get_peers(conn) in a process whose CONF is conf: the lists it can return
\* for these messages
get_peers_by(addr_msgs, conf) ==
    LET peers == IF Cardinality(IncludedPeersBy(addr_msgs, conf)) > 1000 THEN {}
                 ELSE IncludedPeersBy(addr_msgs, conf)
    IN  { l \in SUBSET peers :
            Cardinality(l) = Min(Cardinality(peers), peers_per_node) }

\* the same in the master process
get_peers(addr_msgs) == get_peers_by(addr_msgs, CONF)

\* CONF of the process greenlet w runs in
ConfOf(w) == IF w \in Slaves THEN SLAVE_CONF ELSE CONF

\* get_cached_peers: 'Exclude timestamp from the tuples'
StripTimestamp(peers) == { <<q[1], q[2], q[3]>> : q \in peers }

\* restart number MaxPass has executed its pipeline
LastPassOver ==
    pass = MaxPass /\ cron_pc \in {"update", "dump", "set_running", "scard"}

\* the first step of task's loop: a slave first reads crawl:master:state
Top(w) == IF w \in Slaves THEN "state" ELSE "mode"

\* back to the top of task's loop
Continue(w) ==
    /\ pc' = [pc EXCEPT ![w] = Top(w)]
    /\ loc' = [loc EXCEPT ![w] = NoLoc]

\* main of a slave process: init_conf, then task is spawned; it can be
\* started at any time
SlaveSpawn(s) ==
    /\ pc[s] = "unspawned"
    /\ pc' = [pc EXCEPT ![s] = "state"]
    /\ UNCHANGED <<pending, up, mempool_pending, node, height, version, peer,
                   cidr, state, published, nodes_list, snapshots, CONF, cron_pc,
                   cron_loc, loc, pass, hist, SLAVE_CONF, call>>

\* task, not CONF['master']: redis_conn.get('crawl:master:state') != b'running'
SlaveState(s) ==
    /\ pc[s] = "state"
    /\ pc' = [pc EXCEPT ![s] = IF state # "running" THEN "refresh" ELSE "mode"]
    /\ UNCHANGED <<pending, up, mempool_pending, node, height, version, peer,
                   cidr, state, published, nodes_list, snapshots, CONF, cron_pc,
                   cron_loc, loc, pass, hist, SLAVE_CONF, call>>

\* set_excluded_networks(redis_conn): a list is loaded when its key exists
set_excluded_networks(conf) ==
    [conf EXCEPT
       !.current_exclude_ipv4_networks =
           IF published.v4.is_none THEN @ ELSE published.v4,
       !.current_exclude_ipv6_networks =
           IF published.v6.is_none THEN @ ELSE published.v6]

\* task, not CONF['master']: gevent.sleep(CONF['socket_timeout']) and
\* set_excluded_networks(redis_conn) in the wait loop
SlaveRefresh(s) ==
    /\ pc[s] = "refresh"
    /\ SLAVE_CONF' = set_excluded_networks(SLAVE_CONF)
    /\ pc' = [pc EXCEPT ![s] = "state"]
    /\ UNCHANGED <<pending, up, mempool_pending, node, height, version, peer,
                   cidr, state, published, nodes_list, snapshots, CONF, cron_pc,
                   cron_loc, loc, pass, hist, call>>

\* task: mempool_ask_mode = redis_conn.scard('up') >= CONF['max_nodes']
\*                          or random.randint(0, 3) % 2 == 0
TaskMode(w) ==
    /\ pc[w] = "mode"
    /\ ~LastPassOver
    /\ \E coin \in BOOLEAN :
          loc' = [loc EXCEPT ![w] =
                     [NoLoc EXCEPT !.mempool_ask_mode =
                         (Cardinality(up) >= max_nodes) \/ coin]]
    /\ pc' = [pc EXCEPT ![w] = "pop"]
    /\ UNCHANGED <<pending, up, mempool_pending, node, height, version, peer,
                   cidr, state, published, nodes_list, snapshots, CONF, cron_pc,
                   cron_loc, pass, hist>>
    /\ UNCHANGED <<SLAVE_CONF, call>>

\* task: connect(key, redis_conn) or ask_mempool(key, redis_conn)
Session(mempool_ask_mode) ==
    IF mempool_ask_mode THEN "ask_mempool" ELSE "connect"

\* task: the step after the claim check
AfterExists(n, mempool_ask_mode) ==
    IF HasColon(n[1]) /\ ipv6_prefix < 128 THEN "incr"
    ELSE Session(mempool_ask_mode)

\* task, once it holds a node: the IPv6 and .onion skips, and the key.  In
\* mempool mode the answer of redis_conn.exists(key) is not used, so that
\* round trip is not a step of its own.
Gates(w, n) ==
    IF \/ HasColon(n[1]) /\ ~CONF.ipv6
       \/ EndsWithOnion(n[1]) /\ ~CONF.onion
    THEN Continue(w)
    ELSE /\ pc' = [pc EXCEPT ![w] =
                     IF loc[w].mempool_ask_mode
                     THEN AfterExists(n, TRUE) ELSE "exists"]
         /\ loc' = [loc EXCEPT ![w].node = n,
                               ![w].key = NodeKey(n[1], n[2], n[3])]

\* task: node = redis_conn.lpop('mempool_pending')
TaskLpop(w) ==
    /\ pc[w] = "pop"
    /\ loc[w].mempool_ask_mode
    /\ IF mempool_pending = << >>
       THEN /\ pc' = [pc EXCEPT ![w] = "fallback"]
            /\ UNCHANGED <<loc, mempool_pending>>
       ELSE /\ mempool_pending' = Tail(mempool_pending)
            /\ loc' = [loc EXCEPT ![w].node = Head(mempool_pending)]
            /\ pc' = [pc EXCEPT ![w] = "repush"]
    /\ UNCHANGED <<pending, up, node, height, version, peer, cidr, state,
                   published, nodes_list, snapshots, CONF, cron_pc, cron_loc,
                   pass, hist>>
    /\ UNCHANGED <<SLAVE_CONF, call>>

\* task: redis_conn.lpush('mempool_pending', node)
TaskRepush(w) ==
    /\ pc[w] = "repush"
    /\ mempool_pending' = lpush(mempool_pending, loc[w].node)
    /\ Gates(w, loc[w].node)
    /\ UNCHANGED <<pending, up, node, height, version, peer, cidr, state,
                   published, nodes_list, snapshots, CONF, cron_pc, cron_loc,
                   pass, hist>>
    /\ UNCHANGED <<SLAVE_CONF, call>>

\* task: node = redis_conn.spop('pending'), in discover mode or as the
\* fallback of mempool mode; gevent.sleep(1) when there is none
TaskSpop(w) ==
    /\ \/ pc[w] = "pop" /\ ~loc[w].mempool_ask_mode
       \/ pc[w] = "fallback"
    /\ IF pending = {}
       THEN /\ Continue(w)
            /\ UNCHANGED pending
       ELSE \E n \in pending :
              /\ pending' = pending \ {n}
              /\ Gates(w, n)
    /\ UNCHANGED <<up, mempool_pending, node, height, version, peer, cidr,
                   state, published, nodes_list, snapshots, CONF, cron_pc,
                   cron_loc, pass, hist>>
    /\ UNCHANGED <<SLAVE_CONF, call>>

\* task: if redis_conn.exists(key) and not mempool_ask_mode: continue
TaskExists(w) ==
    /\ pc[w] = "exists"
    /\ IF loc[w].key \in node /\ ~loc[w].mempool_ask_mode
       THEN Continue(w)
       ELSE /\ pc' = [pc EXCEPT ![w] =
                        AfterExists(loc[w].node, loc[w].mempool_ask_mode)]
            /\ UNCHANGED loc
    /\ UNCHANGED <<pending, up, mempool_pending, node, height, version, peer,
                   cidr, state, published, nodes_list, snapshots, CONF, cron_pc,
                   cron_loc, pass, hist>>
    /\ UNCHANGED <<SLAVE_CONF, call>>

\* redis_conn.get(name) in place of redis_conn.incr(name)
incr_get(value) == value

\* redis_conn.incr(name): the value it stores and returns
incr(value) == Min(value + 1, MaxCidr)

\* task: nodes > CONF['nodes_per_ipv6_prefix']
OverLimit(nodes) == nodes > nodes_per_ipv6_prefix

\* task: nodes = redis_conn.incr(f'crawl:cidr:{cidr}') and the limit check
TaskIncr(w) ==
    /\ pc[w] = "incr"
    /\ LET net == ip_to_network(loc[w].node[1], ipv6_prefix)
           nodes == incr(cidr[net])
       IN  /\ cidr' = [cidr EXCEPT ![net] = nodes]
           /\ IF OverLimit(nodes)
              THEN Continue(w) /\ UNCHANGED hist
              ELSE /\ pc' = [pc EXCEPT ![w] = Session(loc[w].mempool_ask_mode)]
                   /\ hist' = [hist EXCEPT !.admitted = @ \cup {loc[w].node}]
                   /\ UNCHANGED loc
    /\ UNCHANGED <<pending, up, mempool_pending, node, height, version, peer,
                   state, published, nodes_list, snapshots, CONF, cron_pc,
                   cron_loc, pass>>
    /\ UNCHANGED <<SLAVE_CONF, call>>

\* connect: redis_conn.set(key, '')
Connect(w) ==
    /\ pc[w] = "connect"
    /\ node' = node \cup {loc[w].key}
    /\ hist' = [hist EXCEPT !.connected = @ \cup {loc[w].node}]
    /\ pc' = [pc EXCEPT ![w] = "handshake"]
    /\ UNCHANGED <<pending, up, mempool_pending, height, version, peer, cidr,
                   state, published, nodes_list, snapshots, CONF, cron_pc,
                   cron_loc, loc, pass>>
    /\ UNCHANGED <<SLAVE_CONF, call>>

\* connect: conn.open() and conn.handshake() return the version message;
\* the key is rewritten when the services differ
HandshakeOk(w) ==
    /\ pc[w] = "handshake"
    /\ LET address == loc[w].node[1]
           services == loc[w].node[3]
           from_services == PeerServices(address)
           key == IF from_services # services
                  THEN NodeKey(address, loc[w].node[2], from_services)
                  ELSE loc[w].key
       IN  /\ loc' = [loc EXCEPT ![w].version_msg =
                                   [services |-> from_services,
                                    height |-> PeerHeight(address)],
                                 ![w].key = key,
                                 ![w].conn = "open"]
           /\ hist' = [hist EXCEPT !.handshaked = @ \cup {key}]
    /\ pc' = [pc EXCEPT ![w] = "cache_get"]
    /\ UNCHANGED <<pending, up, mempool_pending, node, height, version, peer,
                   cidr, state, published, nodes_list, snapshots, CONF, cron_pc,
                   cron_loc, pass>>
    /\ UNCHANGED <<SLAVE_CONF, call>>

\* connect, with a failed handshake giving the claim up again
HandshakeFail_unclaim(w) ==
    /\ pc[w] = "handshake"
    /\ node' = node \ {loc[w].key}
    /\ Continue(w)
    /\ UNCHANGED <<pending, up, mempool_pending, height, version, peer,
                   cidr, state, published, nodes_list, snapshots, CONF, cron_pc,
                   cron_loc, pass, hist>>
    /\ UNCHANGED <<SLAVE_CONF, call>>

\* connect: open() or handshake() raises; conn.close(), and the empty
\* pipeline is executed
HandshakeFail(w) ==
    /\ pc[w] = "handshake"
    /\ Continue(w)
    /\ UNCHANGED <<pending, up, mempool_pending, node, height, version, peer,
                   cidr, state, published, nodes_list, snapshots, CONF, cron_pc,
                   cron_loc, pass, hist>>
    /\ UNCHANGED <<SLAVE_CONF, call>>

\* get_cached_peers: peers = redis_conn.get(key), used when there is one.
\* The key's TTL may have run out by now: Redis then answers None.
CacheGet(w) ==
    /\ pc[w] = "cache_get"
    /\ LET key == <<loc[w].node[1], loc[w].node[2]>>
       IN  \/ /\ key \in DOMAIN peer
              /\ loc' = [loc EXCEPT ![w].peers = StripTimestamp(peer[key])]
              /\ pc' = [pc EXCEPT ![w] = "execute"]
              /\ UNCHANGED peer
           \/ /\ peer' = DelKey(peer, key)
              /\ pc' = [pc EXCEPT ![w] = "get_peers"]
              /\ UNCHANGED loc
    /\ UNCHANGED <<pending, up, mempool_pending, node, height, version, cidr,
                   state, published, nodes_list, snapshots, CONF, cron_pc,
                   cron_loc, pass, hist>>
    /\ UNCHANGED <<SLAVE_CONF, call>>

\* get_cached_peers: peers = get_peers(conn), with replies what getaddr can
\* return, and redis_conn.set(key, str(peers), ex=int(ttl))
CacheSetFrom(w, replies) ==
    /\ pc[w] = "get_peers"
    /\ \E addr_msgs \in replies :
          \E peers \in get_peers_by(addr_msgs, ConfOf(w)) :
             /\ peer' = SetKey(peer, <<loc[w].node[1], loc[w].node[2]>>, peers)
             /\ loc' = [loc EXCEPT ![w].peers = StripTimestamp(peers)]
    /\ pc' = [pc EXCEPT ![w] = "execute"]
    /\ UNCHANGED <<pending, up, mempool_pending, node, height, version, cidr,
                   state, published, nodes_list, snapshots, CONF, cron_pc,
                   cron_loc, pass, hist>>
    /\ UNCHANGED <<SLAVE_CONF, call>>

\* get_cached_peers on a miss
CacheSet(w) == CacheSetFrom(w, getaddr(loc[w].node[1]))

\* get_cached_peers on a miss, when the peer answers the getaddr
CacheSetAnswered(w) == CacheSetFrom(w, {ColdAddrMsgs(loc[w].node[1])})

\* connect: conn.close() and redis_pipe.execute() after a handshake
Execute(w) ==
    /\ pc[w] = "execute"
    /\ LET key_tuple == loc[w].node
           from_services == loc[w].version_msg.services
       IN  /\ height' = SetKey(height,
                               <<key_tuple[1], key_tuple[2], from_services>>,
                               loc[w].version_msg.height)
           /\ version' = SetKey(version, <<key_tuple[1], key_tuple[2]>>,
                                from_services)
           /\ pending' = pending \cup loc[w].peers
           /\ node' = node \cup {loc[w].key}
           /\ up' = up \cup {loc[w].key}
           /\ mempool_pending' = lpush(mempool_pending, key_tuple)
    /\ Continue(w)
    /\ UNCHANGED <<peer, cidr, state, published, nodes_list, snapshots, CONF,
                   cron_pc, cron_loc, pass, hist>>
    /\ UNCHANGED <<SLAVE_CONF, call>>

\* ask_mempool(key, redis_conn): conn.open() fails, or it succeeds and
\* conn.mempool() is answered or fails; gevent.sleep(5) and the return.  It
\* writes nothing to Redis and has no conn.close(): what loc keeps of the
\* session until the next turn of task's loop is the connection it leaves.
ask_mempool(w) ==
    /\ pc[w] = "ask_mempool"
    /\ \E outcome \in {"open failed", "mempool failed", "answered"} :
          loc' = [loc EXCEPT ![w] =
                     [NoLoc EXCEPT !.conn = IF outcome = "open failed"
                                            THEN "none" ELSE "open"]]
    /\ pc' = [pc EXCEPT ![w] = Top(w)]
    /\ UNCHANGED <<pending, up, mempool_pending, node, height, version, peer,
                   cidr, state, published, nodes_list, snapshots, CONF, cron_pc,
                   cron_loc, pass, hist>>
    /\ UNCHANGED <<SLAVE_CONF, call>>

\* ------------------------------------------------------------ specification
Main == MainStart \/ MainClear \/ MainRules \/ set_pending \/ MainRunning

Cron ==
    \/ CronScard \/ CronStarting \/ RestartSmembers \/ RestartKeysNode
    \/ RestartKeysCidr \/ RestartExecute \/ RestartUpdate
    \/ RestartDump \/ CronRunning

Task(w) ==
    \/ TaskMode(w) \/ TaskLpop(w) \/ TaskRepush(w) \/ TaskSpop(w)
    \/ TaskExists(w) \/ TaskIncr(w) \/ Connect(w) \/ HandshakeOk(w)
    \/ HandshakeFail(w) \/ CacheGet(w) \/ CacheSet(w) \/ Execute(w)
    \/ ask_mempool(w)

Next == Main \/ Cron \/ (\E w \in Workers : Task(w))

Spec == Init /\ [][Next]_vars

\* The crawler configured for IPv6 (ipv6 = True, seeders with AAAA records)
InitV6 == Init /\ CONF.ipv6

SpecV6 == InitV6 /\ [][Next]_vars

\* The crawler configured for IPv4 on a network where every handshake
\* succeeds and every getaddr is answered
InitCold == Init /\ ~CONF.ipv6

TaskCold(w) ==
    \/ TaskMode(w) \/ TaskLpop(w) \/ TaskRepush(w) \/ TaskSpop(w)
    \/ TaskExists(w) \/ Connect(w) \/ HandshakeOk(w) \/ CacheGet(w)
    \/ CacheSetAnswered(w) \/ Execute(w) \/ ask_mempool(w)

NextCold == Main \/ Cron \/ (\E w \in Workers : TaskCold(w))

SpecCold == InitCold /\ [][NextCold]_vars

\* A slave process next to the master, IPv4: the behaviours in which the
\* crawl is done by the slave's task greenlet
SlaveTask(s) ==
    \/ SlaveSpawn(s) \/ SlaveState(s) \/ SlaveRefresh(s)
    \/ TaskMode(s) \/ TaskLpop(s) \/ TaskRepush(s) \/ TaskSpop(s)
    \/ TaskExists(s) \/ Connect(s) \/ HandshakeOk(s) \/ HandshakeFail(s)
    \/ CacheGet(s) \/ CacheSet(s) \/ Execute(s) \/ ask_mempool(s)

NextSlave == Main \/ Cron \/ (\E s \in Slaves : SlaveTask(s))

SpecSlave == InitCold /\ [][NextSlave]_vars

\* ------------------------------------------------------------- properties

\* main has bootstrapped the store and spawned the greenlets
Booted ==
    cron_pc \notin {"main", "boot_clear", "boot_rules", "boot_seed", "boot_running"}

\* C1: within one pass at most one connect is started on an endpoint: a
\* connect (its claim write) is never started on an endpoint on which a
\* connect was already started since the last pass boundary.
C1_AtMostOneConnect ==
    [][\A w \in Workers :
          (pc[w] = "connect" /\ pc'[w] = "handshake")
              => loc[w].node \notin hist.connected]_vars

\* C2: every member of 'up' had a handshake that returned successfully
\* after the deletion of 'up' that started the current pass.
C2_UpHandshakedThisPass ==
    Booted => \A key \in up : key \in hist.handshaked

\* C3: 'pending' contains no endpoint that is in 'up' and no endpoint whose
\* node:* claim key exists.
C3_PendingDisjoint ==
    Booted => \A t \in pending :
                 /\ NodeKey(t[1], t[2], t[3]) \notin up
                 /\ NodeKey(t[1], t[2], t[3]) \notin node

\* the endpoints of network n that passed the CIDR step in the current pass
AdmittedFrom(n) ==
    { t \in hist.admitted : ip_to_network(t[1], ipv6_prefix) = n }

\* C4: for every IPv6 prefix the number of distinct endpoints that pass the
\* CIDR step of task within one pass is at most C + (W - 1), with C the cap
\* nodes_per_ipv6_prefix and W the number of task greenlets.
C4_PrefixCap ==
    \A n \in Networks :
        Cardinality(AdmittedFrom(n))
            <= nodes_per_ipv6_prefix + (Cardinality(Workers) - 1)

\* C4 witness: in one pass an endpoint of a prefix went on to a session and
\* a later candidate of the same prefix was counted over the cap.
C4_Witness ==
    \E n \in Networks :
        /\ Cardinality(AdmittedFrom(n)) = nodes_per_ipv6_prefix
        /\ cidr[n] > nodes_per_ipv6_prefix
        /\ pass = 0

\* C5: every crawl:cidr:* counter is at most nodes_per_ipv6_prefix + 1.
C5_CounterBound ==
    Booted => \A n \in Networks : cidr[n] <= nodes_per_ipv6_prefix + 1

\* restart's dump step is taken
DumpStep == cron_pc = "dump" /\ cron_pc' = "set_running"

\* the file dump has just written
LastSnapshot == snapshots'[Len(snapshots')]

\* C6 as stated: at every pass boundary exactly one snapshot is written, with
\* one entry per node restart read from 'up', also when it read none.
C6_OneSnapshotPerBoundary ==
    [][DumpStep =>
          /\ Len(snapshots') = Len(snapshots) + 1
          /\ Len(LastSnapshot) = Cardinality(cron_loc.nodes)]_vars

\* C6 amended: at a pass boundary whose 'up' was read non-empty exactly one
\* snapshot is written, with exactly one entry [address, port, services,
\* height] per node read; when 'up' was read empty no snapshot is written.
C6_SnapshotUnlessEmpty ==
    [][DumpStep =>
          IF cron_loc.nodes = {}
          THEN snapshots' = snapshots
          ELSE /\ Len(snapshots') = Len(snapshots) + 1
               /\ SubSeq(snapshots', 1, Len(snapshots)) = snapshots
               /\ Len(LastSnapshot) = Cardinality(cron_loc.nodes)
               /\ { <<LastSnapshot[i][1], LastSnapshot[i][2], LastSnapshot[i][3]>> :
                      i \in 1 .. Len(LastSnapshot) }
                    = { KeyTuple(n) : n \in cron_loc.nodes }]_vars

\* C6 witness: a boundary has written a snapshot of a non-empty 'up'.
C6_Witness ==
    /\ cron_pc = "set_running"
    /\ Len(snapshots) = 1
    /\ Len(snapshots[1]) >= 1

RECURSIVE Advertised(_, _)
\* the addresses reached from the addresses of 'from' through the entries of
\* the getaddr replies, in at most n hops
Advertised(from, n) ==
    IF n = 0 THEN from
    ELSE Advertised(
             from \cup { PeerAddress(e) :
                         e \in UNION { AddrList(ColdAddrMsgs(a)) : a \in from } },
             n - 1)

\* the addresses of the seeds and of all they advertise transitively
ColdStartReachable ==
    Advertised(GetAddrInfo("AF_INET", FALSE), Cardinality(Addresses))

\* C7: on a cold start over IPv4 with no exclusion rule loaded, every
\* handshake succeeding and every getaddr answered, when the first pass has
\* drained (pending empty, no greenlet holding a node) the addresses of 'up'
\* are those of the seeds and of every endpoint they advertise transitively.
C7_ColdStartDrain ==
    ( /\ Booted
      /\ pass = 0
      /\ cron_pc = "scard"
      /\ CONF.exclude_ipv4_networks = {}
      /\ pending = {}
      /\ \A w \in Workers : pc[w] = "mode" )
    => { KeyTuple(key)[1] : key \in up } = ColdStartReachable

\* C8: the mempool-mode dequeue re-appends the popped entry at the tail of
\* mempool_pending.
C8_RepushAtTail ==
    [][\A w \in Workers :
          (pc[w] = "repush" /\ pc'[w] # "repush" /\ Len(mempool_pending') >= 2)
              => mempool_pending'[Len(mempool_pending')] = loc[w].node]_vars

\* C9: no two greenlets are in ask_mempool (the session or the 5 s sleep
\* that ends it) on the same endpoint at the same time.
C9_OneMempoolSession ==
    \A w1, w2 \in Workers :
        (w1 # w2 /\ pc[w1] = "ask_mempool" /\ pc[w2] = "ask_mempool")
            => loc[w1].node # loc[w2].node

\* C10: every endpoint newly added to 'pending' has an address that
\* is_excluded does not exclude under the rules current at that instant.
C10_FreshSaddNotExcluded ==
    [][\A t \in pending' \ pending : ~IsExcluded(t[1])]_vars

\* C11: at every moment a task greenlet, of the master or of a slave, filters
\* candidates with is_excluded (in get_peers), the rule lists its process
\* consults are the lists the master published last, at the start of the
\* current pass.
C11_FilterUsesPublished ==
    [][\A w \in Tasks :
          (pc[w] = "get_peers" /\ pc'[w] = "execute")
              => /\ ConfOf(w).current_exclude_ipv4_networks = published.v4
                 /\ ConfOf(w).current_exclude_ipv6_networks = published.v6]_vars

\* C12: a getaddr is sent to the peer at (address, port) only while no
\* peer:<address>-<port> entry is stored: between the absence of the entry
\* and the expiry of the entry then stored, one getaddr is issued.
C12_OneGetaddrPerWindow ==
    [][\A w \in Tasks :
          (pc[w] = "get_peers" /\ pc'[w] = "execute")
              => <<loc[w].node[1], loc[w].node[2]>> \notin DOMAIN peer]_vars

\* C13: when the handshake reported services s' different from the
\* candidate's s, what the session publishes carries s': the height key, the
\* node claim, the member of 'up' and the entry pushed on mempool_pending.
C13_PublishedWithRewrittenServices ==
    [][\A w \in Tasks :
          (/\ pc[w] = "execute" /\ pc'[w] # "execute"
           /\ loc[w].version_msg.services # loc[w].node[3])
          => LET address == loc[w].node[1]
                 p == loc[w].node[2]
                 from_services == loc[w].version_msg.services
             IN  /\ <<address, p, from_services>> \in DOMAIN height'
                 /\ NodeKey(address, p, from_services) \in node'
                 /\ NodeKey(address, p, from_services) \in up'
                 /\ Head(mempool_pending') = <<address, p, from_services>>]_vars

\* C14: when restart's pipeline has executed, 'up' is empty, no node:* key
\* and no crawl:cidr:* counter remains, and 'pending' holds every endpoint
\* that was in 'up'.
C14_BoundaryDeletion ==
    [][(cron_pc = "execute" /\ cron_pc' = "update")
          => /\ up' = {}
             /\ node' = {}
             /\ \A n \in Networks : cidr'[n] = 0
             /\ \A key \in up : KeyTuple(key) \in pending']_vars

\* C15: once main has written it, crawl:master:state is 'starting' or
\* 'running' and only alternates between the two; it goes from 'running' to
\* 'starting' only by cron's write that follows its observation of an empty
\* 'pending'; and the re-seeding of 'pending' by main and restart, the
\* refresh of the rule lists and the writing of the snapshot and of the
\* 'nodes' list happen only while it is 'starting'.
C15_RunState ==
    [][/\ state # None => state' \in {"starting", "running"}
       /\ state' # state =>
              <<state, state'>> \in { <<None, "starting">>,
                                      <<"starting", "running">>,
                                      <<"running", "starting">> }
       /\ (state = "running" /\ state' = "starting") => cron_pc = "set_starting"
       /\ (cron_pc # "set_starting" /\ cron_pc' = "set_starting") => pending = {}
       /\ ( \/ published' # published
            \/ CONF' # CONF
            \/ snapshots' # snapshots
            \/ nodes_list' # nodes_list
            \/ cron_pc = "boot_seed" /\ cron_pc' # "boot_seed"
            \/ cron_pc = "execute" /\ cron_pc' # "execute" )
          => (state = "starting" /\ state' = "starting")]_vars

\* C15 witness: cron has set 'starting' after a pass that ran, restart has
\* re-seeded, refreshed the rules and written its snapshot, and 'running' is
\* about to be set again.
C15_Witness ==
    /\ pass = 1
    /\ cron_pc = "set_running"
    /\ state = "starting"
    /\ Len(snapshots) = 1

\* ------------------------------------------------ is_excluded, on its own

\* 2a01:4f8::/32 as (network address, netmask)
Net6 == << <<10753, 1272, 0, 0, 0, 0, 0, 0>>,
           <<65535, 65535, 0, 0, 0, 0, 0, 0>> >>

\* The addresses is_excluded is called with: onion, private, no IP address,
\* IPv4 outside and inside 5.6.0.0/16, IPv6 inside 2a01:4f8::/32
CallAddresses == {OnionAddr, PrivAddr, BadAddr, A1, A2, A3, V1, V2}

\* The values CONF['current_exclude_ipv4_networks'] and
\* CONF['current_exclude_ipv6_networks'] may hold when it is called
CallLists4 == {NoneList, List({}), List({Net56})}
CallLists6 == {NoneList, List({}), List({Net6})}

\* The program before anything ran, and one call of is_excluded about to be
\* made under some CONF.
InitIsExcluded ==
    /\ InitProgram
    /\ ~CONF.ipv6
    /\ EmptyStore
    /\ \E address \in CallAddresses, v4 \in CallLists4, v6 \in CallLists6 :
          call = [fn |-> "is_excluded", address |-> address,
                  current_exclude_ipv4_networks |-> v4,
                  current_exclude_ipv6_networks |-> v6,
                  result |-> "not called"]

\* is_excluded(address): what the call comes to, "ValueError" when the
\* exception of ip_address leaves the function
CallIsExcluded ==
    /\ call.fn = "is_excluded"
    /\ call.result = "not called"
    /\ call' = [call EXCEPT !.result =
                  IF is_excluded_raises(call.address) THEN "ValueError"
                  ELSE IF is_excluded(call.address,
                                      call.current_exclude_ipv4_networks,
                                      call.current_exclude_ipv6_networks)
                  THEN "True" ELSE "False"]
    /\ UNCHANGED <<store, snapshots, CONF, cron_pc, cron_loc, pc, loc, pass,
                   hist, SLAVE_CONF>>

SpecIsExcluded == InitIsExcluded /\ [][CallIsExcluded]_vars

\* The rule list of the address's own family, as the six rules name it
OwnFamilyList(address, v4, v6) == IF HasColon(address) THEN v6 ELSE v4

\* The value the six rules give, first match first
ByPriority(address, v4, v6) ==
    IF EndsWithOnion(address) THEN "False"
    ELSE IF ~IpAddressRaises(address) /\ IsPrivate(address) THEN "True"
    ELSE IF OwnFamilyList(address, v4, v6).is_none THEN "True"
    ELSE IF InetPton(IF HasColon(address) THEN "AF_INET6" ELSE "AF_INET",
                     address) = << >> THEN "True"
    ELSE IF \E net \in OwnFamilyList(address, v4, v6).networks :
               NetMatch(InetPton(IF HasColon(address) THEN "AF_INET6"
                                 ELSE "AF_INET", address), net)
    THEN "True" ELSE "False"

\* C16: every call of is_excluded returns the boolean of the first matching
\* rule of the six: an address that does not parse gives 'excluded' and no
\* error, and 'rules not loaded' counts only for the list of the address's
\* own family.
C16_FirstMatchingRule ==
    (call.fn = "is_excluded" /\ call.result # "not called")
        => call.result = ByPriority(call.address,
                                    call.current_exclude_ipv4_networks,
                                    call.current_exclude_ipv6_networks)

\* C17: a discover session writes its claim node:<E> and nothing else before
\* it connects, and when open() or handshake() fails it ends with 'up',
\* 'pending', 'mempool_pending', every height:* and version:* key and the
\* rest of the store as they were; a mempool session, failing or not, ends
\* with the whole store as it was.
C17_FailedSessionWritesNothing ==
    [][\A w \in Tasks :
          /\ (pc[w] = "connect" /\ pc'[w] = "handshake")
                => /\ node' = node \cup {loc[w].key}
                   /\ UNCHANGED <<pending, up, mempool_pending, height,
                                  version, peer, cidr, state, published,
                                  nodes_list>>
          /\ (pc[w] = "handshake" /\ pc'[w] = Top(w)) => store' = store
          /\ (pc[w] = "ask_mempool" /\ pc'[w] = Top(w)) => store' = store]_vars

\* C17 witness: an endpoint was claimed and connected to in this pass, no
\* handshake with it succeeded, no session with it is under way, and its
\* claim is in the store while 'up' does not hold it.
C17_Witness ==
    \E t \in hist.connected :
       /\ \A sv \in {1, 9} : NodeKey(t[1], t[2], sv) \notin hist.handshaked
       /\ \A w \in Tasks : pc[w] # "handshake"
       /\ NodeKey(t[1], t[2], t[3]) \in node
       /\ NodeKey(t[1], t[2], t[3]) \notin up

\* C18: a task that is back at the top of its loop has left no connection
\* open: the session it ran, connect or ask_mempool, successful or failed,
\* closed the connection it opened.
C18_ClosedOnExit == \A w \in Tasks : pc[w] = Top(w) => loc[w].conn # "open"

\* -------------------------------------------- getaddr and get_peers, alone

\* addr messages a peer can send: its self-advertisement (one entry), and an
\* answer to getaddr (two entries)
SelfAd(address, services) ==
    [count |-> 1, addr_list |-> << Entry(address, "", port, services, now) >>]
Answer23 ==
    [count |-> 2, addr_list |-> << Entry(A2, "", port, 9, now),
                                   Entry(A3, "", port, 9, now) >>]
CallMsgs == {SelfAd(A1, 1), SelfAd(A3, 9), Answer23}

\* What one conn.get_messages of getaddr's loop can drain
CallBatches ==
    { << >> } \cup { <<m>> : m \in CallMsgs }
              \cup { <<m1, m2>> : m1 \in CallMsgs, m2 \in CallMsgs }

\* The rule lists loaded and empty
CallConf == [current_exclude_ipv4_networks |-> List({}),
             current_exclude_ipv6_networks |-> List({})]

\* The program before anything ran, and one call of get_peers about to be
\* made on a connection whose next polls will drain the batches of 'polls'.
InitGetPeers ==
    /\ InitProgram
    /\ ~CONF.ipv6
    /\ EmptyStore
    /\ \E b1 \in CallBatches, b2 \in CallBatches :
          \E polls \in { <<b1>>, <<b1, b2>> } :
             call = [fn |-> "get_peers", polls |-> polls, addr_msgs |-> << >>,
                     returned |-> FALSE, peers |-> {}]

\* getaddr: one turn of the polling loop
CallGetaddrPoll ==
    /\ call.fn = "get_peers"
    /\ ~call.returned
    /\ call.polls # << >>
    /\ call' = [call EXCEPT
                  !.addr_msgs = PollKeeps(Head(call.polls)),
                  !.polls = IF PollKeeps(Head(call.polls)) # << >> THEN << >>
                            ELSE Tail(call.polls)]
    /\ UNCHANGED <<store, snapshots, CONF, cron_pc, cron_loc, pc, loc, pass,
                   hist, SLAVE_CONF>>

\* get_peers: getaddr has returned addr_msgs; the loops over the messages
\* and their entries, the limit, and the return
CallGetPeersReturn ==
    /\ call.fn = "get_peers"
    /\ ~call.returned
    /\ call.polls = << >>
    /\ \E peers \in get_peers_by(call.addr_msgs, CallConf) :
          call' = [call EXCEPT !.returned = TRUE, !.peers = peers]
    /\ UNCHANGED <<store, snapshots, CONF, cron_pc, cron_loc, pc, loc, pass,
                   hist, SLAVE_CONF>>

SpecGetPeers ==
    InitGetPeers /\ [][CallGetaddrPoll \/ CallGetPeersReturn]_vars

\* C19: every peer get_peers returns is an entry of a reply that carries
\* more than one entry; the entry of a reply with count = 1 is not used, also
\* when a reply with count > 1 was drained in the same poll.
C19_SingleEntryRepliesDiscarded ==
    (call.fn = "get_peers" /\ call.returned)
        => \A q \in call.peers :
              \E i \in 1 .. Len(call.addr_msgs) :
                 /\ call.addr_msgs[i].count > 1
                 /\ \E j \in 1 .. Len(call.addr_msgs[i].addr_list) :
                       PeerAddress(call.addr_msgs[i].addr_list[j]) = q[1]

\* C20: a task that removes an endpoint from 'pending' does not go on to a
\* mempool session with it: the endpoint is dropped by a gate or gets a
\* discover session, also when the pop is the fallback of mempool mode.
C20_PoppedGetsDiscoverSession ==
    [][\A w \in Tasks :
          (pc[w] \in {"pop", "fallback"} /\ pending' # pending)
              => pc'[w] # "ask_mempool"]_vars

\* ------------------------------------------------- the crawler, scheduled

\* task draws discover mode: random.randint(0, 3) % 2 == 0 is false and
\* 'up' is below max_nodes
TaskModeDiscover(w) == TaskMode(w) /\ ~loc'[w].mempool_ask_mode

\* gevent runs every greenlet that can run: main and cron go on, every task
\* greenlet goes on (each Redis round trip and each session ends), and a
\* task that can draw discover mode again and again does draw it.  Every
\* step of a greenlet moves it to another statement, so a step is told by
\* the positions.
Positions == <<pc, cron_pc>>

Scheduled ==
    /\ WF_Positions(Main \/ Cron)
    /\ \A w \in Workers : WF_Positions(TaskCold(w))
    /\ \A w \in Workers : SF_Positions(TaskModeDiscover(w))

\* The IPv4 crawler on an empty store, every handshake succeeding and every
\* getaddr answered, under gevent's scheduling
InitFair == InitCold /\ EmptyStore

SpecFair == InitFair /\ [][NextCold]_vars /\ Scheduled

C22_NoReachableLost ==
    [][/\ (cron_pc = "execute" /\ cron_pc' = "update")
            => \A key \in up : /\ key \in cron_loc'.nodes
                               /\ KeyTuple(key) \in pending'
       /\ (DumpStep /\ cron_loc.nodes # {})
            => { KeyTuple(n) : n \in cron_loc.nodes }
                  \subseteq { <<LastSnapshot[i][1], LastSnapshot[i][2],
                                LastSnapshot[i][3]>> :
                                i \in 1 .. Len(LastSnapshot) }]_vars

\* C23: 'mempool_pending' holds no endpoint twice.
C23_MempoolPendingNoDuplicate ==
    \A i \in 1 .. Len(mempool_pending) :
       \A j \in 1 .. Len(mempool_pending) :
          i # j => mempool_pending[i] # mempool_pending[j]

====
